---- MODULE Spec2Model ----
(***************************************************************************)
(* A model of part4_error_handling.py: the single-attempt request          *)
(* (safe_api_request), the bounded retry (safe_api_request_with_retry)     *)
(* and the response validator (validate_crypto_data).                      *)
(*                                                                         *)
(* The transport (requests.get) is the environment: each call either       *)
(* raises one of the requests exceptions or returns a response with an     *)
(* HTTP status code and a body.  Messages are sequences of string pieces,  *)
(* one piece per literal part or interpolated value of the f-string.       *)
(***************************************************************************)
EXTENDS Integers, Sequences, FiniteSets, TLC

\* Largest retry count explored (the code's default is retries=3).
MaxRetries == 3

\* Retry counts passed by callers: non-positive ones included.
RetryValues == (0 - 1)..MaxRetries

\* Timeout values passed in: the default (5) and the demo's (1).
Timeouts == {1, 5}

\* HTTP status codes the transport may answer with (RFC 9110: 100..599).
Statuses == {200, 399, 400, 404, 599}

----------------------------------------------------------------------------
(* Decoded payloads: nested mappings, a function from the keys present.    *)

Fields == {"price", "percent_change_24h", "volume_24h"}

FieldValue(f) ==
    CASE f = "price" -> 50000
      [] f = "percent_change_24h" -> 2
      [] OTHER -> 7

\* The per-currency mappings: any subset of the fields may be present.
CurrencyMaps == { [f \in S |-> FieldValue(f)] : S \in SUBSET Fields }

FullCurrencyMap == [f \in Fields |-> FieldValue(f)]

\* The quotes containers: USD and EUR each present or absent.
QuoteMaps ==
    { [c \in {} |-> FullCurrencyMap], [c \in {"EUR"} |-> FullCurrencyMap] }
    \cup { [c \in {"USD"} |-> m] : m \in CurrencyMaps }
    \cup { [c \in {"USD", "EUR"} |-> IF c = "USD" THEN m ELSE FullCurrencyMap]
             : m \in CurrencyMaps }

\* The payloads: "name" and "quotes" each present or absent at the top.
Payloads ==
    { [k \in {} |-> [c \in {} |-> FullCurrencyMap]],
      [k \in {"name"} |-> [c \in {} |-> FullCurrencyMap]] }
    \cup { [k \in {"quotes"} |-> q] : q \in QuoteMaps }
    \cup { [k \in {"name", "quotes"} |->
               IF k = "quotes" THEN q ELSE [c \in {} |-> FullCurrencyMap]]
             : q \in QuoteMaps }

\* The JSON documents the transport answers with.
JsonBodies ==
    { [k \in {"quotes"} |-> [c \in {"USD"} |-> FullCurrencyMap]],
      [k \in {} |-> [c \in {} |-> FullCurrencyMap]] }

\* A response body: decodable as JSON (with the value it decodes to) or not.
Bodies ==
    { [decodable |-> TRUE, json |-> p] : p \in JsonBodies }
    \cup { [decodable |-> FALSE, json |-> [k \in {} |-> [c \in {} |-> FullCurrencyMap]]] }

----------------------------------------------------------------------------
(* The requests exceptions and their class hierarchy.                      *)

\* Classes requests.get itself raises.
TransportClasses == {"ConnectionError", "ConnectTimeout", "ReadTimeout",
                     "TooManyRedirects"}

\* The classes an exception of class cls is an instance of.
Ancestors(cls) ==
    CASE cls = "ConnectionError" -> {"ConnectionError", "RequestException"}
      [] cls = "ConnectTimeout" ->
            {"ConnectTimeout", "ConnectionError", "Timeout", "RequestException"}
      [] cls = "ReadTimeout" -> {"ReadTimeout", "Timeout", "RequestException"}
      [] cls = "HTTPError" -> {"HTTPError", "RequestException"}
      [] cls = "TooManyRedirects" -> {"TooManyRedirects", "RequestException"}
      [] cls = "JSONDecodeError" ->
            {"JSONDecodeError", "InvalidJSONError", "RequestException"}
      [] OTHER -> {cls}

\* An exception: its class and, for HTTPError, the response's status code.
Exc(cls, status) == [cls |-> cls, status |-> status]

\* str(e): the text of the exception, one piece per class.
StrExc(e) ==
    IF e.cls = "HTTPError"
    THEN "<" \o ToString(e.status) \o " Error>"
    ELSE "<" \o e.cls \o ">"

\* What one call of requests.get does: raise, or return a response.
Outcomes ==
    { [raised |-> TRUE, exc |-> Exc(c, 0), status |-> 0,
       body |-> [decodable |-> FALSE,
                 json |-> [k \in {} |-> [c2 \in {} |-> FullCurrencyMap]]]]
        : c \in TransportClasses }
    \cup { [raised |-> FALSE, exc |-> Exc("none", 0), status |-> s, body |-> b]
             : s \in Statuses, b \in Bodies }

----------------------------------------------------------------------------
(* The body of the try block, shared by both request functions:            *)
(*   response = requests.get(url, timeout=timeout)                         *)
(*   response.raise_for_status()                                           *)
(*   logging.info("Request successful!")                                   *)
(*   return {"success": True, "data": response.json()}                     *)

\* An event of the run: a log record (its level and first text piece), a
\* transport call, a status check, a body decode or a sleep.
Ev(ev, text) == [ev |-> ev, text |-> text]

\* Python's None, returned when a function ends without a return statement.
None == [none |-> TRUE]

\* A status check that takes only the 4xx codes for errors.
RaisesForStatus_ClientOnly(status) == status >= 400 /\ status < 500

\* response.raise_for_status() raises HTTPError for 4xx and 5xx codes.
RaisesForStatus(status) == status >= 400 /\ status < 600

\* response.json() raises JSONDecodeError when the body is not JSON.
JsonRaises(body) == ~body.decodable

\* A try block that decodes the body before it checks the status.
TryException_DecodeFirst(o) ==
    IF o.raised THEN o.exc
    ELSE IF JsonRaises(o.body) THEN Exc("JSONDecodeError", 0)
    ELSE IF RaisesForStatus(o.status) THEN Exc("HTTPError", o.status)
    ELSE Exc("none", 0)

\* The exception the try block ends with, or class "none" when it returns.
TryException(o) ==
    IF o.raised THEN o.exc
    ELSE IF RaisesForStatus(o.status) THEN Exc("HTTPError", o.status)
    ELSE IF JsonRaises(o.body) THEN Exc("JSONDecodeError", 0)
    ELSE Exc("none", 0)

\* The value the try block returns when no exception ends it.
TryReturn(o) == [success |-> TRUE, data |-> o.body.json]

\* The events of the try block, in program order, up to the raise or return.
TryEvents(o) ==
    <<Ev("GET", "requests.get")>>
    \o (IF o.raised THEN <<>>
        ELSE <<Ev("RAISE_FOR_STATUS", "raise_for_status")>>
             \o (IF RaisesForStatus(o.status) THEN <<>>
                 ELSE <<Ev("INFO", "Request successful!"),
                        Ev("JSON", "response.json")>>))

\* An except clause naming class h catches e when e is an instance of h.
Catches(h, e) == h \in Ancestors(e.cls)

\* The except clauses without the closing clause for RequestException.
SingleHandlers_NoGeneric == <<"ConnectionError", "Timeout", "HTTPError">>

\* The except clauses of safe_api_request, in source order.
SingleHandlers == <<"ConnectionError", "Timeout", "HTTPError", "RequestException">>

\* An except clause that retries connection errors and timeouts only.
RetryHandlers_TransportOnly == {"ConnectionError", "Timeout"}

\* The classes of the one except clause of safe_api_request_with_retry.
RetryHandlers == {"ConnectionError", "Timeout", "HTTPError", "RequestException"}

\* The index of the first except clause that catches e; 0 when none does.
FirstHandler(handlers, e) ==
    IF \E i \in 1..Len(handlers) : Catches(handlers[i], e)
    THEN CHOOSE i \in 1..Len(handlers) :
            /\ Catches(handlers[i], e)
            /\ \A j \in 1..(i - 1) : ~Catches(handlers[j], e)
    ELSE 0

\* The value an except clause of safe_api_request returns for e.
SingleHandlerReturn(h, e, timeout) ==
    CASE h = 1 -> [success |-> FALSE,
                   error |-> <<"Connection failed. Check your internet.">>]
      [] h = 2 -> [success |-> FALSE,
                   error |-> <<"Request timed out after ", ToString(timeout),
                               " seconds.">>]
      [] h = 3 -> [success |-> FALSE,
                   error |-> <<"HTTP Error: ", ToString(e.status)>>]
      [] OTHER -> [success |-> FALSE,
                   error |-> <<"Request failed: ", StrExc(e)>>]

\* The log record an except clause of safe_api_request writes for e.
SingleHandlerEvent(h) ==
    CASE h = 1 -> Ev("ERROR", "Connection failed")
      [] h = 2 -> Ev("ERROR", "Request timed out")
      [] h = 3 -> Ev("ERROR", "HTTP Error ")
      [] OTHER -> Ev("ERROR", "General request error: ")

\* safe_api_request(url, timeout) against a transport that does o: whether
\* it returns or lets the exception through, the value and the events.
SafeApiRequest(timeout, o) ==
    LET e == TryException(o)
        h == FirstHandler(SingleHandlers, e)
        head == <<Ev("INFO", "Requesting URL: ")>> \o TryEvents(o)
    IN  IF e.cls = "none"
        THEN [returned |-> TRUE, value |-> TryReturn(o), events |-> head]
        ELSE IF h = 0
        THEN [returned |-> FALSE, value |-> None, events |-> head]
        ELSE [returned |-> TRUE, value |-> SingleHandlerReturn(h, e, timeout),
              events |-> Append(head, SingleHandlerEvent(h))]

----------------------------------------------------------------------------
(* safe_api_request_with_retry: one iteration of its for loop.             *)

\* range(1, retries + 1): the attempt numbers the loop runs through.
LoopRange(retries) == 1..retries

\* The except clause of the retry loop catches e.
RetryCatches(e) == \E h \in RetryHandlers : Catches(h, e)

\* A last-attempt test that is one attempt early.
IsLastAttempt_OffByOne(attempt, retries) == attempt >= retries - 1

\* A last-attempt test that looks one past the end of the range.
IsLastAttempt_PastEnd(attempt, retries) == attempt = retries + 1

\* if attempt == retries: this was the last attempt.
IsLastAttempt(attempt, retries) == attempt = retries

\* A final failure that reports the attempt count without the exception text.
RetryFailureReturn_NoCause(retries, e) ==
    [success |-> FALSE,
     error |-> <<"Failed after ", ToString(retries), " attempts">>]

\* The value returned when the last attempt has failed with e.
RetryFailureReturn(retries, e) ==
    [success |-> FALSE,
     error |-> <<"Failed after ", ToString(retries), " attempts: ", StrExc(e)>>]

\* A loop body that warns and sleeps before it tests for the last attempt.
RetryEvents_SleepAlways(attempt, retries, o) ==
    LET e == TryException(o)
        head == <<Ev("INFO", "Attempt ")>> \o TryEvents(o)
    IN  IF e.cls = "none" \/ ~RetryCatches(e) THEN head
        ELSE Append(head, Ev("ERROR", "Error on attempt "))
             \o <<Ev("WARNING", "Retrying in 1 second..."),
                  Ev("SLEEP", "time.sleep(1)")>>
             \o (IF IsLastAttempt(attempt, retries)
                 THEN <<Ev("CRITICAL", "All retries failed")>>
                 ELSE <<>>)

\* The events of one loop iteration against a transport that does o.
RetryEvents(attempt, retries, o) ==
    LET e == TryException(o)
        head == <<Ev("INFO", "Attempt ")>> \o TryEvents(o)
    IN  IF e.cls = "none" \/ ~RetryCatches(e) THEN head
        ELSE Append(head, Ev("ERROR", "Error on attempt "))
             \o (IF IsLastAttempt(attempt, retries)
                 THEN <<Ev("CRITICAL", "All retries failed")>>
                 ELSE <<Ev("WARNING", "Retrying in 1 second..."),
                        Ev("SLEEP", "time.sleep(1)")>>)

\* A loop that does not return on success while attempts remain.
RetryExit_NoEarlyExit(attempt, retries, o) ==
    LET e == TryException(o)
    IN  IF e.cls # "none" /\ ~RetryCatches(e) THEN "raise"
        ELSE IF IsLastAttempt(attempt, retries) THEN "return"
        ELSE IF attempt + 1 \in LoopRange(retries) THEN "next"
        ELSE "fall"

\* How one loop iteration ends: "return", "raise" (the exception leaves the
\* function), "next" (the loop goes on) or "fall" (the loop is exhausted and
\* the function ends without a return statement).
RetryExit(attempt, retries, o) ==
    LET e == TryException(o)
    IN  IF e.cls = "none" THEN "return"
        ELSE IF ~RetryCatches(e) THEN "raise"
        ELSE IF IsLastAttempt(attempt, retries) THEN "return"
        ELSE IF attempt + 1 \in LoopRange(retries) THEN "next"
        ELSE "fall"

\* The value of one loop iteration's return statement.
RetryReturn(retries, o) ==
    LET e == TryException(o)
    IN  IF e.cls = "none" THEN TryReturn(o) ELSE RetryFailureReturn(retries, e)

----------------------------------------------------------------------------
(* validate_crypto_data                                                    *)

\* A list of required fields without percent_change_24h.
RequiredFields_OnlyPrice == <<"price">>

\* required_fields = ["price", "percent_change_24h"]
RequiredFields == <<"price", "percent_change_24h">>

\* A search that stops at the first missing field.
MissingFields_FirstOnly(usd) ==
    LET all == SelectSeq(RequiredFields, LAMBDA f : f \notin DOMAIN usd)
    IN  IF all = <<>> THEN <<>> ELSE <<all[1]>>

\* [field for field in required_fields if field not in data["quotes"]["USD"]]
MissingFields(usd) == SelectSeq(RequiredFields, LAMBDA f : f \notin DOMAIN usd)

\* The value validate_crypto_data(data) returns.
ValidateCryptoData(d) ==
    IF "quotes" \notin DOMAIN d
    THEN [valid |-> FALSE, error |-> <<"'quotes' field missing">>]
    ELSE IF "USD" \notin DOMAIN d["quotes"]
    THEN [valid |-> FALSE, error |-> <<"'USD' field missing inside quotes">>]
    ELSE IF MissingFields(d["quotes"]["USD"]) # <<>>
    THEN [valid |-> FALSE,
          error |-> <<"Missing fields inside USD: ">>
                    \o MissingFields(d["quotes"]["USD"])]
    ELSE [valid |-> TRUE]

\* A validator that fills in an empty quotes container when there is none.
ValidatePayloadAfter_Fills(d) ==
    IF "quotes" \in DOMAIN d THEN d
    ELSE [k \in DOMAIN d \cup {"quotes"} |-> [c \in {} |-> FullCurrencyMap]]

\* The payload object after validate_crypto_data(data) has returned: the
\* function reads data with "in" and subscripts and never stores into it.
ValidatePayloadAfter(d) == d

\* The log records validate_crypto_data(data) writes.
ValidateEvents(d) ==
    <<Ev("INFO", "Validating crypto data structure...")>>
    \o (IF "quotes" \notin DOMAIN d
        THEN <<Ev("ERROR", "Missing 'quotes' field")>>
        ELSE IF "USD" \notin DOMAIN d["quotes"]
        THEN <<Ev("ERROR", "Missing 'USD' field inside quotes")>>
        ELSE IF MissingFields(d["quotes"]["USD"]) # <<>>
        THEN <<Ev("ERROR", "Missing fields inside USD: ")>>
        ELSE <<Ev("INFO", "Crypto data validated successfully")>>)

----------------------------------------------------------------------------
(* The state machine: one call of one of the three functions.              *)

VARIABLES
    pc,       \* "idle", "loop" (inside the retry loop), "done", "raised"
    mode,     \* the function called: "none", "single", "retry", "validate"
    timeout,  \* the timeout argument
    retries,  \* the retries argument
    attempt,  \* the loop variable of the retry loop
    calls,    \* what each call of requests.get did, in order
    trace,    \* the events of the run, in order
    result,   \* the value returned
    data,     \* the payload object the validator was given, as it is now
    arg,      \* the payload as it was when the validator was first called
    again     \* the value a second call of the validator returned

vars == <<pc, mode, timeout, retries, attempt, calls, trace, result, data,
          arg, again>>

EmptyPayload == [k \in {} |-> [c \in {} |-> FullCurrencyMap]]

Init ==
    /\ pc = "idle"
    /\ mode = "none"
    /\ timeout = 5
    /\ retries = 3
    /\ attempt = 0
    /\ calls = <<>>
    /\ trace = <<>>
    /\ result = None
    /\ data = EmptyPayload
    /\ arg = EmptyPayload
    /\ again = None

\* safe_api_request(url, timeout=t) with the transport doing o.
CallSingle ==
    \E t \in Timeouts, o \in Outcomes :
        /\ pc = "idle"
        /\ mode' = "single"
        /\ timeout' = t
        /\ calls' = <<o>>
        /\ trace' = SafeApiRequest(t, o).events
        /\ result' = SafeApiRequest(t, o).value
        /\ pc' = IF SafeApiRequest(t, o).returned THEN "done" ELSE "raised"
        /\ UNCHANGED <<retries, attempt, data, arg, again>>

\* safe_api_request_with_retry(url, timeout=t, retries=n): entering the loop,
\* or ending at once when range(1, n + 1) is empty.
CallRetry ==
    \E t \in Timeouts, n \in RetryValues :
        /\ pc = "idle"
        /\ mode' = "retry"
        /\ timeout' = t
        /\ retries' = n
        /\ IF 1 \in LoopRange(n)
           THEN pc' = "loop" /\ attempt' = 1
           ELSE pc' = "done" /\ attempt' = 0
        /\ result' = None
        /\ UNCHANGED <<calls, trace, data, arg, again>>

\* One iteration of the retry loop with the transport doing o.
RetryAttempt ==
    \E o \in Outcomes :
        /\ pc = "loop"
        /\ calls' = Append(calls, o)
        /\ trace' = trace \o RetryEvents(attempt, retries, o)
        /\ LET x == RetryExit(attempt, retries, o)
           IN  /\ pc' = CASE x = "return" -> "done"
                          [] x = "raise" -> "raised"
                          [] x = "next" -> "loop"
                          [] OTHER -> "done"
               /\ result' = IF x = "return" THEN RetryReturn(retries, o) ELSE None
               /\ attempt' = IF x = "next" THEN attempt + 1 ELSE attempt
        /\ UNCHANGED <<mode, timeout, retries, data, arg, again>>

\* validate_crypto_data(p).
CallValidate ==
    \E p \in Payloads :
        /\ pc = "idle"
        /\ mode' = "validate"
        /\ arg' = p
        /\ data' = ValidatePayloadAfter(p)
        /\ result' = ValidateCryptoData(p)
        /\ trace' = ValidateEvents(p)
        /\ pc' = "done"
        /\ UNCHANGED <<timeout, retries, attempt, calls, again>>

\* validate_crypto_data called a second time on the same payload object.
CallValidateAgain ==
    /\ pc = "done"
    /\ mode = "validate"
    /\ DOMAIN again = {"none"}
    /\ again' = ValidateCryptoData(data)
    /\ data' = ValidatePayloadAfter(data)
    /\ trace' = trace \o ValidateEvents(data)
    /\ UNCHANGED <<pc, mode, timeout, retries, attempt, calls, result, arg>>

Next ==
    CallSingle \/ CallRetry \/ RetryAttempt \/ CallValidate \/ CallValidateAgain

Spec == Init /\ [][Next]_vars

\* The loop is sequential and blocking: once the transport call of an
\* iteration has returned or raised, the iteration runs to its end.
FairSpec == Spec /\ WF_vars(RetryAttempt)

----------------------------------------------------------------------------
(* The vocabulary of the claims.                                           *)

\* The result is the dictionary {"success": True, "data": ...}.
IsSuccess(r) == DOMAIN r = {"success", "data"} /\ r.success = TRUE

\* The result is the dictionary {"success": False, "error": ...}.
IsFailure(r) == DOMAIN r = {"success", "error"} /\ r.success = FALSE

\* The message has the piece.
Mentions(msg, piece) == \E i \in 1..Len(msg) : msg[i] = piece

\* The failure kind an exception text stands for.
TextKind(text) ==
    IF text \in {StrExc(Exc("ConnectTimeout", 0)), StrExc(Exc("ReadTimeout", 0))}
    THEN "TimeoutError"
    ELSE IF text = StrExc(Exc("ConnectionError", 0)) THEN "ConnectionError"
    ELSE IF text \in {StrExc(Exc("HTTPError", s)) : s \in Statuses}
    THEN "HttpStatusError"
    ELSE IF text = StrExc(Exc("JSONDecodeError", 0)) THEN "DecodeError"
    ELSE "OtherRequestError"

\* The failure kind of a failure result: the kind of the except clause whose
\* message it carries and, for the retry loop's message (one clause for every
\* class), the kind of the exception whose text it carries.
Kind(r) ==
    CASE r.error[1] = "Connection failed. Check your internet." -> "ConnectionError"
      [] r.error[1] = "Request timed out after " -> "TimeoutError"
      [] r.error[1] = "HTTP Error: " -> "HttpStatusError"
      [] r.error[1] = "Request failed: " -> "OtherRequestError"
      [] r.error[1] = "Failed after " -> TextKind(r.error[4])
      [] OTHER -> "Unknown"

\* The transport call timed out, while connecting or while reading.
IsTimeoutOutcome(o) == o.raised /\ o.exc.cls \in {"ConnectTimeout", "ReadTimeout"}

\* The attempt is a success in the sense of the contract: a response with a
\* status below 400 and a body that decodes.
AttemptSucceeds(o) == ~o.raised /\ o.status < 400 /\ o.body.decodable

\* The last transport call of the run.
LastCall == calls[Len(calls)]

C2_EarlyExitOnSuccess ==
    (mode = "retry" /\ retries >= 1)
    => /\ \A k \in 1..Len(calls) :
            AttemptSucceeds(calls[k])
            => /\ Len(calls) = k
               /\ k <= retries
               /\ pc = "done"
               /\ IsSuccess(result)
       /\ (pc = "done" /\ \A k \in 1..Len(calls) : ~AttemptSucceeds(calls[k]))
            => Len(calls) = retries

C2_Witness ==
    /\ mode = "retry" /\ pc = "done"
    /\ Len(calls) >= 2
    /\ \A k \in 1..(Len(calls) - 1) : ~AttemptSucceeds(calls[k])
    /\ AttemptSucceeds(LastCall)
    /\ IsSuccess(result)

\* C3: a retry count that is 0 or negative makes no transport call and
\* returns a failure of kind InvalidConfiguration, never no result at all.
C3_NonPositiveRetriesFail ==
    (mode = "retry" /\ retries <= 0 /\ pc = "done")
    => /\ calls = <<>>
       /\ IsFailure(result)
       /\ Kind(result) \notin {"ConnectionError", "TimeoutError", "HttpStatusError",
                               "OtherRequestError", "DecodeError"}

\* C4: whatever the transport does on an attempt, both request functions
\* return a result dictionary: no exception leaves them.
C4_NoExceptionCrosses ==
    /\ pc # "raised"
    /\ (pc = "done" /\ mode \in {"single", "retry"} /\ calls # <<>>)
        => (IsSuccess(result) \/ IsFailure(result))

C4_Witness ==
    /\ pc = "done" /\ mode = "single"
    /\ ~LastCall.raised /\ LastCall.status < 400 /\ ~LastCall.body.decodable
    /\ IsFailure(result)

\* C5: when the transport answers with a status code >= 400, a single
\* attempt returns a failure of kind HttpStatusError whose message has that
\* status code.
C5_HttpStatusError ==
    (mode = "single" /\ pc = "done" /\ ~LastCall.raised /\ LastCall.status >= 400)
    => /\ IsFailure(result)
       /\ Kind(result) = "HttpStatusError"
       /\ Mentions(result.error, ToString(LastCall.status))

C5_Witness ==
    /\ mode = "single" /\ pc = "done"
    /\ ~LastCall.raised /\ LastCall.status = 404
    /\ IsFailure(result)
    /\ Mentions(result.error, "404")

\* C6: when the transport call times out, while connecting or while
\* reading, a single attempt returns a failure of kind TimeoutError whose
\* message has the timeout value passed in.
C6_TimeoutError ==
    (mode = "single" /\ pc = "done" /\ IsTimeoutOutcome(LastCall))
    => /\ IsFailure(result)
       /\ Kind(result) = "TimeoutError"
       /\ Mentions(result.error, ToString(timeout))

\* C7: when the transport answers with a status below 400 and a body that
\* does not decode, a single attempt returns a failure whose kind is none of
\* the other failure kinds (OtherRequestError among them).
C7_DecodeErrorDistinct ==
    (mode = "single" /\ pc = "done"
        /\ ~LastCall.raised /\ LastCall.status < 400 /\ ~LastCall.body.decodable)
    => /\ IsFailure(result)
       /\ Kind(result) \notin {"ConnectionError", "TimeoutError", "HttpStatusError",
                               "OtherRequestError"}

\* The payload has quotes.USD.price and quotes.USD.percent_change_24h.
HasRequiredShape(d) ==
    /\ "quotes" \in DOMAIN d
    /\ "USD" \in DOMAIN d["quotes"]
    /\ {"price", "percent_change_24h"} \subseteq DOMAIN d["quotes"]["USD"]

\* The pieces of a message after its first.
Named(msg) == { msg[i] : i \in 2..Len(msg) }

\* C8: the validator answers valid exactly for the payloads that have the
\* quotes container, its USD entry and both required fields in it; when the
\* USD entry lacks both required fields the reason names both.
C8_ValidIffRequiredShape ==
    (mode = "validate" /\ pc = "done")
    => /\ result.valid <=> HasRequiredShape(data)
       /\ ("quotes" \in DOMAIN data /\ "USD" \in DOMAIN data["quotes"]
            /\ "price" \notin DOMAIN data["quotes"]["USD"]
            /\ "percent_change_24h" \notin DOMAIN data["quotes"]["USD"])
           => /\ Mentions(result.error, "price")
              /\ Mentions(result.error, "percent_change_24h")

C8_Witness ==
    /\ mode = "validate" /\ pc = "done"
    /\ "quotes" \in DOMAIN data /\ "USD" \in DOMAIN data["quotes"]
    /\ "price" \in DOMAIN data["quotes"]["USD"]
    /\ "percent_change_24h" \notin DOMAIN data["quotes"]["USD"]
    /\ ~result.valid

\* C9: the reason of an invalid payload names the first missing tier only:
\* the quotes container when it is missing, whatever else is; else the USD
\* key when it is missing; else the missing required fields, all of them and
\* no field that is present.
C9_FirstMissingTier ==
    (mode = "validate" /\ pc = "done" /\ ~result.valid)
    => IF "quotes" \notin DOMAIN data
       THEN result.error = <<"'quotes' field missing">>
       ELSE IF "USD" \notin DOMAIN data["quotes"]
       THEN result.error = <<"'USD' field missing inside quotes">>
       ELSE /\ result.error[1] = "Missing fields inside USD: "
            /\ Named(result.error) =
                 { f \in {"price", "percent_change_24h"} :
                     f \notin DOMAIN data["quotes"]["USD"] }

C9_Witness ==
    /\ mode = "validate" /\ pc = "done" /\ ~result.valid
    /\ "quotes" \in DOMAIN data /\ "USD" \in DOMAIN data["quotes"]
    /\ DOMAIN data["quotes"]["USD"] = {"volume_24h"}
    /\ Len(result.error) = 3

\* C10: every result a single attempt or a retry sequence returns is either
\* a Success with the payload the transport's last answer decodes to and no
\* error message, or a Failure with a non-empty message and no payload.
C10_TwoShapes ==
    (pc = "done" /\ mode \in {"single", "retry"})
    => \/ /\ IsSuccess(result)
          /\ calls # <<>>
          /\ result.data = LastCall.body.json
       \/ /\ IsFailure(result)
          /\ result.error # <<>>

\* The positions of the trace that hold an event of the kind.
Positions(kind) == { i \in 1..Len(trace) : trace[i].ev = kind }

\* The calls of the run that satisfy the test.
CallsWhere(Test(_)) == { i \in 1..Len(calls) : Test(calls[i]) }

\* The transport answered with a response whose status is not an error.
HasGoodStatus(o) == ~o.raised /\ o.status < 400

\* The transport answered with a response, of whatever status.
HasResponse(o) == ~o.raised

\* C11: in an attempt the checks come in a fixed order: a transport failure
\* ends the attempt before any response is inspected, the status is checked
\* right after the transport call and before the body is decoded, and the
\* body is decoded only after a non-error status; a response with a status
\* >= 400 and an undecodable body is an HttpStatusError and is never decoded.
C11_ClassificationOrder ==
    (mode \in {"single", "retry"})
    => /\ \A s \in Positions("RAISE_FOR_STATUS") : s > 1 /\ trace[s - 1].ev = "GET"
       /\ \A j \in Positions("JSON") : j > 2 /\ trace[j - 2].ev = "RAISE_FOR_STATUS"
       /\ Cardinality(Positions("GET")) = Len(calls)
       /\ Cardinality(Positions("RAISE_FOR_STATUS")) =
            Cardinality(CallsWhere(HasResponse))
       /\ Cardinality(Positions("JSON")) = Cardinality(CallsWhere(HasGoodStatus))
       /\ (mode = "single" /\ pc = "done" /\ LastCall.raised)
            => /\ IsFailure(result)
               /\ Kind(result) \in {"ConnectionError", "TimeoutError",
                                    "OtherRequestError"}
       /\ (mode = "single" /\ pc = "done" /\ ~LastCall.raised
             /\ LastCall.status >= 400)
            => /\ IsFailure(result)
               /\ Kind(result) = "HttpStatusError"
               /\ Positions("JSON") = {}

C11_Witness ==
    /\ mode = "single" /\ pc = "done"
    /\ ~LastCall.raised /\ LastCall.status >= 400 /\ ~LastCall.body.decodable
    /\ Kind(result) = "HttpStatusError"
    /\ Positions("JSON") = {}

\* C12: in a retry sequence a pause of one second, with a warning right
\* before it, follows each failed attempt that is not the last and nothing
\* else: a sequence that has ended has paused once less than it has
\* attempted and does not end with a pause, and every attempt after the
\* first starts after as many pauses as attempts went before it.
C12_PauseBetweenAttempts ==
    (mode = "retry" /\ calls # <<>>)
    => /\ \A i \in Positions("SLEEP") :
            /\ trace[i].text = "time.sleep(1)"
            /\ i > 2
            /\ trace[i - 1].ev = "WARNING"
            /\ trace[i - 2].ev = "ERROR"
       /\ \A i \in Positions("WARNING") :
            i < Len(trace) /\ trace[i + 1].ev = "SLEEP"
       /\ \A g \in Positions("GET") :
            Cardinality({ i \in Positions("SLEEP") : i < g }) =
            Cardinality({ i \in Positions("GET") : i < g })
       /\ pc = "loop" => Cardinality(Positions("SLEEP")) = Len(calls)
       /\ pc = "done" => /\ Cardinality(Positions("SLEEP")) = Len(calls) - 1
                         /\ trace[Len(trace)].ev # "SLEEP"
                         /\ IsSuccess(result) \/ IsFailure(result)

C12_Witness ==
    /\ mode = "retry" /\ pc = "done" /\ IsFailure(result)
    /\ Len(calls) >= 3
    /\ Cardinality(Positions("SLEEP")) = Len(calls) - 1

\* The text of the exception a failed attempt ends with.
FailureText(o) == StrExc(TryException(o))

\* C13: when all N attempts of a retry sequence have failed (N >= 1), the
\* failure returned states N and carries the text of the N-th attempt's
\* exception and of no earlier attempt's that differs from it.
C13_TerminalFailureMessage ==
    (mode = "retry" /\ pc = "done" /\ retries >= 1
        /\ \A i \in 1..Len(calls) : ~AttemptSucceeds(calls[i]))
    => /\ Len(calls) = retries
       /\ IsFailure(result)
       /\ Mentions(result.error, ToString(retries))
       /\ Mentions(result.error, FailureText(LastCall))
       /\ \A i \in 1..(Len(calls) - 1) :
            FailureText(calls[i]) # FailureText(LastCall)
            => ~Mentions(result.error, FailureText(calls[i]))

C13_Witness ==
    /\ mode = "retry" /\ pc = "done" /\ IsFailure(result)
    /\ Len(calls) >= 2
    /\ FailureText(calls[1]) # FailureText(LastCall)
    /\ Mentions(result.error, FailureText(LastCall))

\* The number of events of the kind in a sequence of events.
CountEv(seq, kind) == Cardinality({ i \in 1..Len(seq) : seq[i].ev = kind })

\* The outcomes that make an attempt fail, of whatever class.
FailingOutcomes == { o \in Outcomes : ~AttemptSucceeds(o) }

\* C14: inside the retry loop any two failing transports, whatever their
\* failure classes, make the iteration end the same way (return after the
\* last attempt, go on otherwise) with the same number of transport calls
\* and pauses; so a sequence whose attempts have all failed has made N
\* attempts and N - 1 pauses whatever the classes.
C14_FailureClassIrrelevant ==
    /\ (mode = "retry" /\ pc = "loop")
        => \A o1, o2 \in FailingOutcomes :
            /\ RetryExit(attempt, retries, o1) = RetryExit(attempt, retries, o2)
            /\ RetryExit(attempt, retries, o1) \in {"return", "next"}
            /\ CountEv(RetryEvents(attempt, retries, o1), "GET") =
               CountEv(RetryEvents(attempt, retries, o2), "GET")
            /\ CountEv(RetryEvents(attempt, retries, o1), "SLEEP") =
               CountEv(RetryEvents(attempt, retries, o2), "SLEEP")
    /\ (mode = "retry" /\ pc = "done" /\ calls # <<>>
          /\ \A i \in 1..Len(calls) : ~AttemptSucceeds(calls[i]))
        => /\ Len(calls) = retries
           /\ CountEv(trace, "SLEEP") = retries - 1

C14_Witness ==
    /\ mode = "retry" /\ pc = "done" /\ Len(calls) = 3
    /\ calls[1].raised /\ calls[1].exc.cls = "ConnectionError"
    /\ ~calls[2].raised /\ calls[2].status = 404
    /\ calls[3].raised /\ calls[3].exc.cls = "ReadTimeout"
    /\ CountEv(trace, "SLEEP") = 2

\* An upper bound on the seconds the run has taken: every transport call is
\* given the timeout (requests.get(url, timeout=timeout)) and every pause
\* lasts one second (time.sleep(1)).
Seconds == timeout * CountEv(trace, "GET") + CountEv(trace, "SLEEP")

\* n, or 0 when n is negative.
AtLeastZero(n) == IF n > 0 THEN n ELSE 0

\* The bounds of C15 as stated: N attempts, N - 1 pauses, N x (timeout + 1).
C15_BoundsAsClaimed ==
    (mode = "retry")
    => /\ Len(calls) <= retries
       /\ CountEv(trace, "SLEEP") <= retries - 1
       /\ Seconds <= retries * (timeout + 1)

\* The bounds of C15 with a non-positive N counted as no attempt at all.
C15_Bounds ==
    (mode = "retry")
    => /\ Len(calls) <= AtLeastZero(retries)
       /\ CountEv(trace, "SLEEP") <= AtLeastZero(retries - 1)
       /\ Seconds <= AtLeastZero(retries) * (timeout + 1)

\* C15 as stated: for any retry count N the retry sequence terminates, after
\* at most N attempts and at most N - 1 pauses, within N x (timeout + 1)
\* seconds.
C15_AsClaimed == []C15_BoundsAsClaimed /\ ((pc = "loop") ~> (pc = "done"))

\* C15, amended: for any retry count N the retry sequence terminates, after
\* at most max(N, 0) attempts and at most max(N - 1, 0) pauses, within
\* max(N, 0) x (timeout + 1) seconds.
C15_TerminatesWithinBounds == []C15_Bounds /\ ((pc = "loop") ~> (pc = "done"))

C15_Witness ==
    /\ mode = "retry" /\ pc = "done" /\ retries >= 2
    /\ Len(calls) = retries
    /\ CountEv(trace, "SLEEP") = retries - 1
    /\ Seconds = retries * (timeout + 1) - 1

\* C16: every attempt logs one informational record right before the
\* transport call and then one informational record when it succeeds or one
\* error record when it fails, and nothing else at these levels; a retry
\* sequence logs a critical record once when its last attempt has failed and
\* never otherwise.
C16_LogPattern ==
    (mode \in {"single", "retry"})
    => /\ \A g \in Positions("GET") : g > 1 /\ trace[g - 1].ev = "INFO"
       /\ Cardinality(Positions("INFO")) =
            Len(calls) + Cardinality(CallsWhere(AttemptSucceeds))
       /\ Cardinality(Positions("ERROR")) =
            Len(calls) - Cardinality(CallsWhere(AttemptSucceeds))
       /\ Cardinality(Positions("CRITICAL")) =
            (IF mode = "retry" /\ pc = "done" /\ IsFailure(result) THEN 1 ELSE 0)

====
